---- MODULE Spec2Model ----
(***************************************************************************)
(* A model of the FortiGuard application-control crawler (src/main.py):    *)
(* page fetch with retry, catalog discovery, list-page scraping, detail    *)
(* enrichment and the two thread-pool rounds of scrape_all_pages.          *)
(*                                                                         *)
(* The whole run (scrape_all) is the specification Spec.  The single       *)
(* functions are also run in isolation, one call at a time, from inputs    *)
(* drawn in the initial state: SpecFetch (fetch_page), SpecPage            *)
(* (scrape_page), SpecDetails (get_app_details) and SpecPages              *)
(* (calculate_total_pages).  All of them step the same operators.          *)
(* SpecFair is Spec with every enabled step eventually taken.              *)
(***************************************************************************)
EXTENDS Integers, Sequences, FiniteSets, TLC

VARIABLES
    config,        \* the Config instance threaded through every call
    pc,            \* where the orchestrating flow of scrape_all stands
    discovery,     \* get_total_appids_and_per_page: [state, soup], state "pending",
                   \* "ok" or the exception raised, soup what its fetch_page returned
    main_attempt,  \* loop index of the orchestrating flow's own fetch_page
    shape,         \* [total, per_page, pages] once discovery has succeeded
    tasks1,        \* round 1 futures, by page number
    page_results,  \* round 1: page_num -> page_data, where collected
    all_apps,      \* the flattened partial records handed to round 2
    tasks2,        \* round 2 futures, by position in all_apps
    all_data,      \* the output list of app dicts
    sessions,      \* the transport sessions created so far: [owner, open, users]
    waiter,        \* per round, as_completed: whether it has begun, the futures it
                   \* found finished, and the finished futures not yet yielded
    future_to_app, \* round 2: the app_data each submitted future was given
    call           \* a single function call run in isolation

vars == <<config, pc, discovery, main_attempt, shape, tasks1, page_results, all_apps, tasks2, all_data, sessions, waiter, future_to_app, call>>

run_vars == <<pc, discovery, main_attempt, shape, tasks1, page_results, all_apps, tasks2, all_data, sessions, waiter, future_to_app>>

(***************************************************************************)
(* Bounds of the model.                                                    *)
(***************************************************************************)
MaxRetries == 2        \* config.max_retries ranges over 1..MaxRetries in Spec
MaxWorkers == 2        \* config.max_workers ranges over 1..MaxWorkers in Spec
MaxTotal == 2          \* the declared total of the catalog ranges over 0..MaxTotal
MaxFetchRetries == 3   \* config.max_retries in the isolated calls
MaxDelay == 2          \* config.retry_delay in the isolated fetch_page call
MaxSections == 2       \* sections of a detail page in the isolated get_app_details call
MaxSmallTotal == 12    \* the small totals of the isolated calculate_total_pages call
MaxPerPage == 4        \* its items_per_page
MaxNameLen == 5        \* characters of a bolded name given to extract_app_data

(***************************************************************************)
(* Program constants.                                                      *)
(***************************************************************************)
DefaultMaxWorkers == 1
DefaultRetryDelay == 2
WarmUp == 1

(***************************************************************************)
(* Values.  None is Python's None; a document is what BeautifulSoup makes  *)
(* of a response body.                                                     *)
(***************************************************************************)
None == [tag |-> "None"]

Config(mr, mw, rd) == [max_retries |-> mr, max_workers |-> mw, retry_delay |-> rd]

\* The outcomes of session.get + raise_for_status + BeautifulSoup in the try
\* block of fetch_page: a parsed document, or an exception.  An exception is
\* told by its class, as the except clauses of fetch_page tell it:
\*   "conn"             requests.exceptions.ConnectionError
\*   "ssl"              SSLError, a ConnectionError
\*   "connect_timeout"  ConnectTimeout, a ConnectionError and a Timeout
\*   "read_timeout"     ReadTimeout, a Timeout
\*   "req"              HTTPError (raise_for_status), a RequestException
\*   "exc"              an exception that is no RequestException (which no
\*                      except clause of fetch_page catches)
Ok(doc) == [kind |-> "ok", doc |-> doc]

ConnError == [kind |-> "conn"]

SSLError == [kind |-> "ssl"]

ConnectTimeout == [kind |-> "connect_timeout"]

ReadTimeout == [kind |-> "read_timeout"]

RequestError == [kind |-> "req"]

Unexpected == [kind |-> "exc"]

Failures == {ConnError, SSLError, ConnectTimeout, ReadTimeout, RequestError}

Outcomes(docs) == {Ok(d) : d \in docs} \cup Failures \cup {Unexpected}

\* The outcomes that the whole run tells apart: a document, and one exception
\* for each way fetch_page treats an exception (the classes of one except
\* clause differ in nothing but the sleeps).
RunOutcomes(docs) == {Ok(d) : d \in docs} \cup {ConnError, ReadTimeout, Unexpected}

\* isinstance(e, (SSLError, ConnectionError)): the first except clause.
is_connection_error(outcome) == outcome.kind \in {"conn", "ssl", "connect_timeout"}

\* isinstance(e, RequestException): the second except clause.
is_request_exception(outcome) == outcome \in Failures

(***************************************************************************)
(* fetch_page: one iteration of `for attempt in range(max_retries)`.       *)
(* The result says how the iteration ends: "return" (with val), "raise"    *)
(* (the exception leaves fetch_page) or "retry" (the loop goes on with     *)
(* attempt + 1); sleeps lists the time.sleep calls of the iteration.       *)
(***************************************************************************)
Pow2(n) == 2 ^ n

\* A mutant of fetch_retries_left: gives up one attempt early.
fetch_retries_left_early(attempt, max_retries) == attempt < max_retries - 2

fetch_retries_left(attempt, max_retries) == attempt < max_retries - 1

\* A mutant of backoff_delay: the pause does not grow.
backoff_delay_flat(attempt, cfg) == cfg.retry_delay

\* delay = config.retry_delay * (2 ** attempt)
backoff_delay(attempt, cfg) == cfg.retry_delay * Pow2(attempt)

fetch_page_attempt(attempt, outcome, cfg) ==
    IF outcome.kind = "ok"
    THEN [end |-> "return", val |-> outcome.doc, sleeps |-> <<WarmUp>>]
    ELSE IF is_connection_error(outcome)
    THEN IF fetch_retries_left(attempt, cfg.max_retries)
         THEN [end |-> "retry", val |-> None,
               sleeps |-> <<WarmUp, backoff_delay(attempt, cfg)>>]
         ELSE [end |-> "return", val |-> None, sleeps |-> <<WarmUp>>]
    ELSE IF is_request_exception(outcome)
    THEN IF fetch_retries_left(attempt, cfg.max_retries)
         THEN [end |-> "retry", val |-> None, sleeps |-> <<WarmUp, cfg.retry_delay>>]
         ELSE [end |-> "return", val |-> None, sleeps |-> <<WarmUp>>]
    ELSE [end |-> "raise", val |-> None, sleeps |-> <<WarmUp>>]

\* A mutant of fetch_page_step: one attempt more than max_retries.
fetch_page_step_extra(attempt, outcome, cfg) ==
    LET more == [cfg EXCEPT !.max_retries = @ + 1]
        r == fetch_page_attempt(attempt, outcome, more)
    IN  IF r.end = "retry" /\ ~(attempt + 1 < more.max_retries)
        THEN [r EXCEPT !.end = "return"]
        ELSE r

\* The iteration within the for loop: when range(max_retries) is used up the
\* loop falls through to the final `return None`.
fetch_page_step(attempt, outcome, cfg) ==
    LET r == fetch_page_attempt(attempt, outcome, cfg)
    IN  IF r.end = "retry" /\ ~(attempt + 1 < cfg.max_retries)
        THEN [r EXCEPT !.end = "return"]
        ELSE r

(***************************************************************************)
(* Text.  A text is a sequence of one-character strings.                   *)
(***************************************************************************)
IsSpace(c) == c = " "

RECURSIVE LStrip(_)
LStrip(s) == IF s # <<>> /\ IsSpace(Head(s)) THEN LStrip(Tail(s)) ELSE s

RECURSIVE RStrip(_)
RStrip(s) ==
    IF s # <<>> /\ IsSpace(s[Len(s)]) THEN RStrip(SubSeq(s, 1, Len(s) - 1)) ELSE s

Strip(s) == RStrip(LStrip(s))

\* re.search(r'\(([^)]+)\)$', s): the start of the leftmost match, 0 if none.
\* A match from i: s[i] = "(", the text ends with ")", and what lies between
\* is not empty and holds no ")".
CategoryMatchAt(s, i) ==
    /\ s[i] = "("
    /\ s[Len(s)] = ")"
    /\ i + 1 < Len(s)
    /\ \A k \in (i + 1)..(Len(s) - 1) : s[k] # ")"

CategoryMatch(s) ==
    LET starts == {i \in 1..Len(s) : CategoryMatchAt(s, i)}
    IN  IF starts = {} THEN 0 ELSE CHOOSE i \in starts : \A j \in starts : i <= j

\* A mutant of RemoveCategory: the white space before the match stays.
RemoveCategory_untrimmed(s) == SubSeq(s, 1, CategoryMatch(s) - 1)

\* re.sub(r'\s*\([^)]+\)$', '', s): the text before the white space that
\* precedes the match.
RemoveCategory(s) == RStrip(SubSeq(s, 1, CategoryMatch(s) - 1))

(***************************************************************************)
(* A row element of a catalog page (a div.row whose onclick matches        *)
(* /appcontrol/\d+) as extract_app_data reads it:                          *)
(*   app_id     the digits of the onclick target                           *)
(*   name_col   whether a div.col-md-3 with a word-break style exists      *)
(*   bold       its <b> element, None where there is none                  *)
(*   cols       the div.col-md-3 elements: for each its first <small>      *)
(*              element, None where it has none                            *)
(*   divs       the class-bearing divs: for each the number of img         *)
(*              elements whose alt matches black-background                *)
(* An element with text is [text |-> its get_text()].                      *)
(***************************************************************************)
Elem(text) == [text |-> text]

Row(id, name_col, bold, cols, divs) ==
    [app_id |-> id, name_col |-> name_col, bold |-> bold, cols |-> cols, divs |-> divs]

extract_rating_count(divs, i) == IF Len(divs) >= i THEN divs[i] ELSE 0

extract_app_data(row) ==
    IF ~row.name_col THEN None
    ELSE IF row.bold = None THEN None
    ELSE
        LET app_name_full == Strip(row.bold.text)
            matched == CategoryMatch(app_name_full) # 0
            category == IF matched
                        THEN SubSeq(app_name_full, CategoryMatch(app_name_full) + 1,
                                    Len(app_name_full) - 1)
                        ELSE <<>>
            app_name == IF matched THEN RemoveCategory(app_name_full) ELSE app_name_full
            description == IF Len(row.cols) >= 2 /\ row.cols[2] # None
                           THEN Strip(row.cols[2].text)
                           ELSE <<>>
        IN  [app_id |-> row.app_id, app_name |-> app_name, description |-> description,
             category |-> category, risk |-> extract_rating_count(row.divs, 3),
             popularity |-> extract_rating_count(row.divs, 4)]

\* A mutant of extract_rows: the first row that does not extract ends the page.
RECURSIVE extract_rows_abort(_)
extract_rows_abort(rows) ==
    IF rows = <<>> THEN <<>>
    ELSE LET data == extract_app_data(Head(rows))
         IN  IF data # None THEN <<data>> \o extract_rows_abort(Tail(rows))
             ELSE <<>>

\* The records of the rows that extract, in document order.
RECURSIVE extract_rows(_)
extract_rows(rows) ==
    IF rows = <<>> THEN <<>>
    ELSE LET data == extract_app_data(Head(rows))
         IN  IF data # None THEN <<data>> \o extract_rows(Tail(rows))
             ELSE extract_rows(Tail(rows))

(***************************************************************************)
(* calculate_total_pages.  Python's int has no width, so a count is kept   *)
(* as two limbs <<hi, lo>> of value hi * Limb + lo with lo < Limb: the     *)
(* checker's own integers stop at 2^31.  total_appids / items_per_page is  *)
(* Python's true division, the quotient correctly rounded to a float of    *)
(* MantBits significant bits (ties to even), and math.ceil acts on that    *)
(* float.  Modelled for hi < 2^28 (total < 2^54) and items_per_page < 32.  *)
(***************************************************************************)
MantBits == 53

Limb == 2 ^ 26

Big(hi, lo) == <<hi, lo>>

Small(n) == Big(n \div Limb, n % Limb)

BigSucc(b) == IF b[2] + 1 = Limb THEN Big(b[1] + 1, 0) ELSE Big(b[1], b[2] + 1)

BigPred(b) == IF b[2] = 0 THEN Big(b[1] - 1, Limb - 1) ELSE Big(b[1], b[2] - 1)

\* Number of bits of a limb: the least k with n < 2^k.
BitLen(n) == CHOOSE k \in 0..30 : n < 2 ^ k /\ (k = 0 \/ n >= 2 ^ (k - 1))

BigBitLen(b) == IF b[1] > 0 THEN 26 + BitLen(b[1]) ELSE BitLen(b[2])

\* Long division of a count by a small divisor: [quot, rem].
BigDivMod(b, d) ==
    LET carry == (b[1] % d) * Limb + b[2]
    IN  [quot |-> Big(b[1] \div d, carry \div d), rem |-> carry % d]

\* math.ceil(total / d): the ceiling of the float nearest to the quotient.
\* With n the whole part of the quotient, of e bits, and r the remainder:
\*   e <= MantBits      n and n + 1 are floats, and the floats between them
\*                      are 2^(e - MantBits) apart: the quotient rounds down
\*                      to n when r / d is below half of that, or is half of 
\*                      it and n's last significand bit is 0;
\*   e = MantBits + 1   the floats are the even numbers: an even n is the
\*                      nearest one, an odd n rounds up to n + 1 unless
\*                      r = 0 and n - 1 is the multiple of 4.
CeilOfTrueDiv(b, d) ==
    LET q == BigDivMod(b, d)
        n == q.quot
        r == q.rem
        e == BigBitLen(n)
        shift == MantBits + 1 - e
        scaled == IF shift <= 5 THEN r * (2 ^ shift) ELSE d + 1
        n_even == n[2] % 2 = 0
    IN  IF e <= MantBits
        THEN IF r = 0 THEN n
             ELSE IF e = 0 THEN BigSucc(n)
             ELSE IF scaled < d THEN n
             ELSE IF scaled = d /\ (e < MantBits \/ n_even) THEN n
             ELSE BigSucc(n)
        ELSE IF n_even THEN n
             ELSE IF r = 0 /\ BigPred(n)[2] % 4 = 0 THEN BigPred(n)
             ELSE BigSucc(n)

\* A mutant: floor instead of ceil.
calculate_total_pages_floor(total_appids, items_per_page) ==
    IF items_per_page = 0 THEN [raised |-> "ValueError"]
    ELSE [raised |-> "", val |-> BigDivMod(total_appids, items_per_page).quot]

calculate_total_pages(total_appids, items_per_page) ==
    IF items_per_page = 0 THEN [raised |-> "ValueError"]
    ELSE [raised |-> "", val |-> CeilOfTrueDiv(total_appids, items_per_page)]

\* The exact ceiling of total / d, in whole numbers.
ExactCeil(b, d) ==
    LET q == BigDivMod(b, d) IN IF q.rem = 0 THEN q.quot ELSE BigSucc(q.quot)

(***************************************************************************)
(* Documents.  A catalog page holds the "Total:" marker and its row        *)
(* elements; a detail page holds its div.detail-item sections.             *)
(***************************************************************************)
NoMarker == [kind |-> "absent"]

GarbledMarker == [kind |-> "garbled"]

TotalMarker(n) == [kind |-> "total", value |-> n]

PageDoc(marker, rows) == [tag |-> "page", marker |-> marker, rows |-> rows]

DetailDoc(sections) == [tag |-> "detail", sections |-> sections]

(***************************************************************************)
(* get_total_appids_and_per_page, after its fetch_page has returned soup.  *)
(***************************************************************************)
\* A mutant: a page without the marker counts as an empty catalog.
discover_lenient(soup) ==
    IF soup = None THEN [raised |-> "RuntimeError"]
    ELSE IF soup.marker.kind = "absent" THEN [raised |-> "", total |-> 0, per_page |-> 1]
    ELSE IF soup.marker.kind = "garbled" THEN [raised |-> "ValueError"]
    ELSE IF Len(soup.rows) = 0 THEN [raised |-> "ValueError"]
    ELSE [raised |-> "", total |-> soup.marker.value, per_page |-> Len(soup.rows)]

discover(soup) ==
    IF soup = None THEN [raised |-> "RuntimeError"]
    ELSE IF soup.marker.kind = "absent" THEN [raised |-> "ValueError"]
    ELSE IF soup.marker.kind = "garbled" THEN [raised |-> "ValueError"]
    ELSE IF Len(soup.rows) = 0 THEN [raised |-> "ValueError"]
    ELSE [raised |-> "", total |-> soup.marker.value, per_page |-> Len(soup.rows)]

(***************************************************************************)
(* scrape_page: what one transport outcome does to a call that stands in   *)
(* page attempt `attempt`, fetch attempt `fattempt`.  end is "fetch" (the  *)
(* call goes on to its next GET), "return" or "raise".                     *)
(***************************************************************************)
\* A mutant: a page of 0 rows is returned at once.
page_retries_left_never(attempt, max_retries) == FALSE

page_retries_left(attempt, max_retries) == attempt < max_retries - 1

\* The page attempt has ended without rows: the retry or the empty list.
scrape_page_again(attempt, cfg) ==
    IF page_retries_left(attempt, cfg.max_retries) /\ attempt + 1 < cfg.max_retries
    THEN [end |-> "fetch", attempt |-> attempt + 1, fattempt |-> 0, val |-> <<>>]
    ELSE [end |-> "return", attempt |-> attempt, fattempt |-> 0, val |-> <<>>]

\* The extraction loop and `return app_data`.
scrape_page_extract(attempt, soup) ==
    [end |-> "return", attempt |-> attempt, fattempt |-> 0, val |-> extract_rows(soup.rows)]

\* if len(app_elements) != expected_items and page_num > 1
page_mismatch(n, expected_items, page_num) == n # expected_items /\ page_num > 1

\* A mutant of scrape_page_mismatch: a page of the wrong size is fetched again.
scrape_page_mismatch_retry(attempt, soup, cfg) == scrape_page_again(attempt, cfg)

\* The mismatch is logged, and the call goes on to the extraction.
scrape_page_mismatch(attempt, soup, cfg) == scrape_page_extract(attempt, soup)

\* A mutant of scrape_page_soup: the retry is decided on the records that
\* were extracted, not on the row elements that were found.
scrape_page_soup_on_records(attempt, soup, cfg, page_num, expected_items) ==
    IF soup = None THEN scrape_page_again(attempt, cfg)
    ELSE IF Len(extract_rows(soup.rows)) = 0 THEN scrape_page_again(attempt, cfg)
    ELSE IF page_mismatch(Len(soup.rows), expected_items, page_num)
    THEN scrape_page_mismatch(attempt, soup, cfg)
    ELSE scrape_page_extract(attempt, soup)

scrape_page_soup(attempt, soup, cfg, page_num, expected_items) ==
    IF soup = None THEN scrape_page_again(attempt, cfg)
    ELSE IF Len(soup.rows) = 0 THEN scrape_page_again(attempt, cfg)
    ELSE IF page_mismatch(Len(soup.rows), expected_items, page_num)
    THEN scrape_page_mismatch(attempt, soup, cfg)
    ELSE scrape_page_extract(attempt, soup)

scrape_page_step(attempt, fattempt, outcome, cfg, page_num, expected_items) ==
    LET f == fetch_page_step(fattempt, outcome, cfg)
    IN  IF f.end = "retry"
        THEN [end |-> "fetch", attempt |-> attempt, fattempt |-> fattempt + 1, val |-> <<>>]
        ELSE IF f.end = "raise"
        THEN [end |-> "raise", attempt |-> attempt, fattempt |-> fattempt, val |-> <<>>]
        ELSE scrape_page_soup(attempt, f.val, cfg, page_num, expected_items)

(***************************************************************************)
(* get_app_details.  A section (div.detail-item) is read as                *)
(*   h3      None, or its first <h3>: the set of vocabulary entries that   *)
(*           the heading text contains                                     *)
(*   ul      None, or its first <ul>: the li elements, each [text, a],     *)
(*           a the first <a> of the li with its href, None where it has    *)
(*           none                                                          *)
(*   p       None, or its first <p> element                                *)
(*   faulty  reading the section raises an exception                       *)
(***************************************************************************)
H3(contains) == [contains |-> contains]

Ul(items) == [items |-> items]

A(href) == [href |-> href]

Section(h3, ul, p) == [h3 |-> h3, ul |-> ul, p |-> p, faulty |-> FALSE]

FaultySection == [h3 |-> None, ul |-> None, p |-> None, faulty |-> TRUE]

Li(text, a) == [text |-> text, a |-> a]

EmptyDetails ==
    [default_ports |-> <<>>, affected_products |-> <<>>, impact |-> <<>>,
     technology |-> <<>>, behavior |-> <<>>, references |-> <<>>]

\* ', '.join(texts)
RECURSIVE Join(_)
Join(texts) ==
    IF texts = <<>> THEN <<>>
    ELSE IF Len(texts) = 1 THEN texts[1]
    ELSE texts[1] \o <<",", " ">> \o Join(Tail(texts))

\* The stripped texts of the li elements that are not blank.
RECURSIVE li_texts(_)
li_texts(ul) ==
    IF ul = <<>> THEN <<>>
    ELSE LET t == Strip(Head(ul).text)
         IN  IF t # <<>> THEN <<t>> \o li_texts(Tail(ul)) ELSE li_texts(Tail(ul))

\* References: the href of an li's link, else the li's text.
RECURSIVE li_refs(_)
li_refs(ul) ==
    IF ul = <<>> THEN <<>>
    ELSE LET li == Head(ul)
             t == IF li.a # None THEN Strip(li.a.href) ELSE Strip(li.text)
         IN  IF t # <<>> THEN <<t>> \o li_refs(Tail(ul)) ELSE li_refs(Tail(ul))

\* A mutant of detail_item: Technology is tested first.
detail_item_technology_first(details, item) ==
    IF item.h3 # None /\ item.p # None /\ "Technology" \in item.h3.contains
    THEN [details EXCEPT !.technology = Strip(item.p.text)]
    ELSE details

detail_item(details, item) ==
    IF item.h3 = None THEN details
    ELSE IF "Default Ports" \in item.h3.contains
    THEN IF item.ul # None
         THEN [details EXCEPT !.default_ports = Join(li_texts(item.ul.items))]
         ELSE details
    ELSE IF "Affected Products" \in item.h3.contains
    THEN IF item.p # None
         THEN [details EXCEPT !.affected_products = Strip(item.p.text)]
         ELSE IF item.ul # None
         THEN [details EXCEPT !.affected_products = Join(li_texts(item.ul.items))]
         ELSE details
    ELSE IF "Impact" \in item.h3.contains
    THEN IF item.p # None THEN [details EXCEPT !.impact = Strip(item.p.text)] ELSE details
    ELSE IF "Technology" \in item.h3.contains
    THEN IF item.p # None THEN [details EXCEPT !.technology = Strip(item.p.text)] ELSE details
    ELSE IF "Behavior" \in item.h3.contains
    THEN IF item.ul # None
         THEN [details EXCEPT !.behavior = Join(li_texts(item.ul.items))]
         ELSE IF item.p # None
         THEN [details EXCEPT !.behavior = Strip(item.p.text)]
         ELSE details
    ELSE IF "References" \in item.h3.contains
    THEN IF item.ul # None
         THEN [details EXCEPT !.references = Join(li_refs(item.ul.items))]
         ELSE details
    ELSE details

\* A mutant of detail_items: the sections are folded from the last to the
\* first, so that the first section of an entry wins.
RECURSIVE detail_items_first_wins(_, _)
detail_items_first_wins(details, items) ==
    IF items = <<>> THEN details
    ELSE IF Head(items).faulty THEN details
    ELSE detail_item(detail_items_first_wins(details, Tail(items)), Head(items))

\* The loop over detail_items, inside the try: an exception ends it, and
\* `except Exception` returns the dict as the loop has left it.
RECURSIVE detail_items(_, _)
detail_items(details, items) ==
    IF items = <<>> THEN details
    ELSE IF Head(items).faulty THEN details
    ELSE detail_items(detail_item(details, Head(items)), Tail(items))

\* A mutant: a failed fetch leaves get_app_details as an exception. 
get_app_details_end_raising(f) ==
    IF f.end = "raise" THEN [end |-> "return", val |-> EmptyDetails]
    ELSE IF f.val = None THEN [end |-> "raise", val |-> EmptyDetails]
    ELSE [end |-> "return", val |-> detail_items(EmptyDetails, f.val.sections)]

\* fetch_page has ended (f.end is "return" or "raise").
get_app_details_end(f) ==
    IF f.end = "raise" THEN [end |-> "return", val |-> EmptyDetails]
    ELSE IF f.val = None THEN [end |-> "return", val |-> EmptyDetails]
    ELSE [end |-> "return", val |-> detail_items(EmptyDetails, f.val.sections)]

get_app_details_step(fattempt, outcome, cfg) ==
    LET f == fetch_page_step(fattempt, outcome, cfg)
    IN  IF f.end = "retry"
        THEN [end |-> "fetch", fattempt |-> fattempt + 1, val |-> EmptyDetails]
        ELSE get_app_details_end(f) @@ [fattempt |-> fattempt]

(***************************************************************************)
(* The catalog the run meets: the rows, page bodies and detail pages the   *)
(* transport may answer with.                                              *)
(***************************************************************************)
RowA == Row(1, TRUE, Elem(<<"A">>), <<None, Elem(<<"a">>)>>, <<0, 0, 1, 2>>)

RowB == Row(2, TRUE, Elem(<<"B", " ", "(", "U", ")">>), <<None, None>>, <<0, 0, 3>>)

RowNoName == Row(3, FALSE, None, <<>>, <<>>)

RowNoBold == Row(4, TRUE, None, <<None>>, <<0>>)

Bodies == {<<>>, <<RowA>>, <<RowB>>, <<RowNoName>>}

Markers == {NoMarker, GarbledMarker} \cup {TotalMarker(n) : n \in 0..MaxTotal}

\* Page 1 as discovery may find it.
FirstPages == {PageDoc(m, b) : m \in Markers, b \in {<<>>, <<RowA>>, <<RowA, RowB>>}}

\* scrape_page does not read the marker.
Pages == {PageDoc(TotalMarker(0), b) : b \in Bodies}

ImpactSection == Section(H3({"Impact"}), None, Elem(<<"x">>))

DetailPages == {DetailDoc(<<ImpactSection>>)}

(***************************************************************************)
(* The thread pool (ThreadPoolExecutor) and its futures.                   *)
(***************************************************************************)
\* A future and the frame of its task: st is "queued", "running", "returned"
\* or "raised"; attempt and fattempt are the loop indices of scrape_page and
\* fetch_page while the task runs; exhausted says that the task's last
\* fetch_page ended on a transport failure; val is the future's result.
Future(st, attempt, fattempt, exhausted, val, collected) ==
    [st |-> st, attempt |-> attempt, fattempt |-> fattempt, exhausted |-> exhausted,
     val |-> val, collected |-> collected]

Queued == Future("queued", 0, 0, FALSE, <<>>, FALSE)

Running(tasks) == {t \in DOMAIN tasks : tasks[t].st = "running"}

Done(tasks) == {t \in DOMAIN tasks : tasks[t].st \in {"returned", "raised"}}

\* A mutant: the pool starts a task whatever is running.
worker_free_always(tasks, cfg) == TRUE

\* ThreadPoolExecutor(max_workers=config.max_workers): a queued task starts
\* when fewer than max_workers tasks are running.
worker_free(tasks, cfg) == Cardinality(Running(tasks)) < cfg.max_workers

\* The pool's queue is first in, first out: the next task to start is the
\* first one submitted that is still queued.
next_queued(tasks, t) ==
    /\ t \in DOMAIN tasks
    /\ tasks[t].st = "queued"
    /\ \A u \in DOMAIN tasks : u < t => tasks[u].st # "queued"

(***************************************************************************)
(* Sessions.  A session is [owner, open, users]: the flow that created it  *)
(* (the orchestrating flow, or a task of round 1 or 2), whether it is      *)
(* open, and the flows that have sent a GET through it.                    *)
(***************************************************************************)
Task(round, t) == [round |-> round, task |-> t]

MainFlow == Task(0, 0)

\* session = create_session()
create_session(ss, owner) == Append(ss, [owner |-> owner, open |-> TRUE, users |-> {}])

\* session.get(...) by `user` on the session that `owner` holds.
session_get(ss, owner, user) ==
    [k \in DOMAIN ss |-> IF ss[k].owner = owner THEN [ss[k] EXCEPT !.users = @ \cup {user}]
                         ELSE ss[k]]

\* A mutant of wrapper_finally: the session is left open.
wrapper_finally_leak(ss, owner) == ss

\* finally: session.close()
wrapper_finally(ss, owner) ==
    [k \in DOMAIN ss |-> IF ss[k].owner = owner THEN [ss[k] EXCEPT !.open = FALSE] ELSE ss[k]]

\* A mutant of worker_writes: the worker stores its result itself.
worker_writes_result(collection, t, val) == (t :> val) @@ collection

\* A worker hands its result to its future (`return`) and leaves the
\* collection structures of the orchestrating flow as they are.
worker_writes(collection, t, val) == collection

(***************************************************************************)
(* as_completed.  waiter[r] is                                             *)
(*   installed  the generator has begun (the loop has asked for its first  *)
(*              future)                                                    *)
(*   pre        the futures it found finished when it began and has not    *)
(*              yielded yet                                                *)
(*   finished   the futures that have finished and are not yet yielded, in *)
(*              the order they finished                                    *)
(***************************************************************************)
NewWaiter == [installed |-> FALSE, pre |-> {}, finished |-> <<>>]

Range(q) == {q[k] : k \in DOMAIN q}

\* A future finishes.
add_result(w, t) == [w EXCEPT !.finished = Append(@, t)]

\* The first call of the generator: the finished futures are set apart.
install_waiter(w, done) == [w EXCEPT !.installed = TRUE, !.pre = done]

\* The generator yields future t.
yield_future(w, t) ==
    LET Other(u) == u # t
    IN  [w EXCEPT !.pre = @ \ {t}, !.finished = SelectSeq(@, Other)]

\* The comprehension over range(1, total_pages + 1) submits every page.
round1_submitted(pages) == pages

\* A mutant of as_completed_next: the futures are taken in submission order.
as_completed_in_order(w, tasks) ==
    IF ~w.installed THEN {}
    ELSE {t \in Range(w.finished) : \A u \in DOMAIN tasks : u < t => tasks[u].collected}

\* The futures the generator may yield next: first those it found finished
\* when it began, in the order of a set; then the others as they finish.
as_completed_next(w, tasks) ==
    IF ~w.installed THEN {}
    ELSE IF w.pre # {} THEN w.pre
    ELSE IF w.finished # <<>> THEN {Head(w.finished)}
    ELSE {}

\* A mutant of as_completed_exhausted: the loop is left after one result.
as_completed_exhausted_early(w, tasks) ==
    w.installed /\ \E t \in DOMAIN tasks : tasks[t].collected

\* The generator ends when it has yielded every future.
as_completed_exhausted(w, tasks) ==
    w.installed /\ \A t \in DOMAIN tasks : tasks[t].collected

\* Mutants: the exception of future.result() leaves the loop.
round1_on_error_abort(st) == IF st = "raised" THEN "raised" ELSE "round1"

round2_on_error_abort(st) == IF st = "raised" THEN "raised" ELSE "round2"

\* `except Exception` around future.result(): the loop over as_completed
\* goes on.
round1_on_error(st) == "round1"

round2_on_error(st) == "round2"

\* A mutant of flatten: all_apps is the data of the first page collected.
flatten_first_page(results, pages) ==
    IF pages = {} THEN <<>>
    ELSE results[CHOOSE q \in pages : \A r \in pages : q <= r]

\* all_apps: the page data of sorted(page_results.keys()), concatenated.
RECURSIVE flatten(_, _)
flatten(results, pages) ==
    IF pages = {} THEN <<>>
    ELSE LET first == CHOOSE q \in pages : \A r \in pages : q <= r
         IN  results[first] \o flatten(results, pages \ {first})

\* A mutant of all_apps_sorted: the pages are taken as page_results.keys()
\* gives them, in the order they were collected.
RECURSIVE all_apps_unsorted(_, _)
all_apps_unsorted(results, keys) ==
    IF keys = <<>> THEN <<>>
    ELSE results[Head(keys)] \o all_apps_unsorted(results, Tail(keys))

\* for page_num in sorted(page_results.keys()): keys is page_results.keys(),
\* the page numbers in insertion order.
all_apps_sorted(results, keys) == flatten(results, Range(keys))

\* A mutant of app_dict: risk and popularity change places.
app_dict_swapped(app, details) ==
    [app_id |-> app.app_id, app_name |-> app.app_name, description |-> app.description,
     category |-> app.category, risk |-> app.popularity, popularity |-> app.risk,
     default_ports |-> details.default_ports,
     affected_products |-> details.affected_products, impact |-> details.impact,
     technology |-> details.technology, behavior |-> details.behavior,
     references |-> details.references]

app_dict(app, details) ==
    [app_id |-> app.app_id, app_name |-> app.app_name, description |-> app.description,
     category |-> app.category, risk |-> app.risk, popularity |-> app.popularity,
     default_ports |-> details.default_ports,
     affected_products |-> details.affected_products, impact |-> details.impact,
     technology |-> details.technology, behavior |-> details.behavior,
     references |-> details.references]

BigToInt(b) == b[1] * Limb + b[2]

(***************************************************************************)
(* scrape_all.                                                             *)
(***************************************************************************)
\* The state of a run that has not begun.
Fresh(at) ==
    /\ pc = at
    /\ discovery = [state |-> "pending", soup |-> None]
    /\ main_attempt = 0
    /\ shape = None
    /\ tasks1 = <<>>
    /\ page_results = <<>>
    /\ all_apps = <<>>
    /\ tasks2 = <<>>
    /\ all_data = <<>>
    /\ sessions = <<>>
    /\ waiter = <<NewWaiter, NewWaiter>>
    /\ future_to_app = <<>>

Init ==
    /\ config \in {Config(mr, mw, DefaultRetryDelay) : mr \in 1..MaxRetries, mw \in 1..MaxWorkers}
    /\ Fresh("start")
    /\ call = None

\* session = create_session(), before the try of scrape_all.
CreateSession(ok) ==
    /\ pc = "start"
    /\ pc' = IF ok THEN "discover" ELSE "raised"
    /\ sessions' = IF ok THEN create_session(sessions, MainFlow) ELSE sessions
    /\ UNCHANGED <<config, discovery, main_attempt, shape, tasks1, page_results, all_apps,
                   tasks2, all_data, waiter, future_to_app, call>>

\* One GET of get_total_appids_and_per_page; when its fetch_page ends, the
\* rest of discovery and calculate_total_pages, up to the executor of round 1.
DiscoverGet(o) ==
    /\ pc = "discover"
    /\ sessions' = session_get(sessions, MainFlow, MainFlow)
    /\ LET f == fetch_page_step(main_attempt, o, config)
           d == discover(f.val)
       IN  IF f.end = "retry"
           THEN /\ main_attempt' = main_attempt + 1
                /\ UNCHANGED <<pc, discovery, shape>>
           ELSE IF f.end = "raise"
           THEN /\ pc' = "raised"
                /\ discovery' = [state |-> "Exception", soup |-> None]
                /\ UNCHANGED <<main_attempt, shape>>
           ELSE IF d.raised # ""
           THEN /\ pc' = "raised"
                /\ discovery' = [state |-> d.raised, soup |-> f.val]
                /\ UNCHANGED <<main_attempt, shape>>
           ELSE LET n == calculate_total_pages(Small(d.total), d.per_page)
                IN  /\ discovery' = [state |-> "ok", soup |-> f.val]
                    /\ IF n.raised # ""
                       THEN /\ pc' = "raised"
                            /\ UNCHANGED shape
                       ELSE /\ pc' = "round1"
                            /\ shape' = [total |-> d.total, per_page |-> d.per_page,
                                         pages |-> BigToInt(n.val)]
                    /\ UNCHANGED main_attempt
    /\ UNCHANGED <<config, tasks1, page_results, all_apps, tasks2, all_data, waiter,
                   future_to_app, call>>

\* executor.submit(_scrape_page_wrapper, ...) for the next page of
\* range(1, total_pages + 1).
SubmitPage ==
    /\ pc = "round1"
    /\ Len(tasks1) < round1_submitted(shape.pages)
    /\ tasks1' = Append(tasks1, Queued)
    /\ UNCHANGED <<config, pc, discovery, main_attempt, shape, page_results, all_apps,
                   tasks2, all_data, sessions, waiter, future_to_app, call>>

\* A worker takes the next page task: _scrape_page_wrapper up to its first
\* GET.  create_session() stands before the try and may raise.
StartPage(q, ok) ==
    /\ pc = "round1"
    /\ next_queued(tasks1, q)
    /\ worker_free(tasks1, config)
    /\ tasks1' = [tasks1 EXCEPT ![q].st = IF ok THEN "running" ELSE "raised"]
    /\ sessions' = IF ok THEN create_session(sessions, Task(1, q)) ELSE sessions
    /\ waiter' = IF ok THEN waiter ELSE [waiter EXCEPT ![1] = add_result(@, q)]
    /\ UNCHANGED <<config, pc, discovery, main_attempt, shape, page_results, all_apps,
                   tasks2, all_data, future_to_app, call>>

\* One GET of a running page task, and scrape_page up to its next GET; where
\* scrape_page ends, the finally clause of the wrapper and the completion of
\* the future.
PageGet(q, o) ==
    /\ pc = "round1"
    /\ q \in Running(tasks1)
    /\ LET r == scrape_page_step(tasks1[q].attempt, tasks1[q].fattempt, o, config,
                                 q, shape.per_page)
           used == session_get(sessions, Task(1, q), Task(1, q))
       IN  /\ tasks1' = [tasks1 EXCEPT ![q] =
                  IF r.end = "fetch"
                  THEN Future("running", r.attempt, r.fattempt, FALSE, <<>>, FALSE)
                  ELSE IF r.end = "return"
                  THEN Future("returned", 0, 0, FALSE, r.val, FALSE)
                  ELSE Future("raised", 0, 0, FALSE, <<>>, FALSE)]
           /\ sessions' = IF r.end = "fetch" THEN used ELSE wrapper_finally(used, Task(1, q))
           /\ waiter' = IF r.end = "fetch" THEN waiter
                        ELSE [waiter EXCEPT ![1] = add_result(@, q)]
           /\ page_results' = worker_writes(page_results, q, r.val)
    /\ UNCHANGED <<config, pc, discovery, main_attempt, shape, all_apps,
                   tasks2, all_data, future_to_app, call>>

\* `for future in as_completed(future_to_page)` begins, every page submitted.
AsCompleted1 ==
    /\ pc = "round1"
    /\ Len(tasks1) = round1_submitted(shape.pages)
    /\ ~waiter[1].installed
    /\ waiter' = [waiter EXCEPT ![1] = install_waiter(@, Done(tasks1))]
    /\ UNCHANGED <<config, pc, discovery, main_attempt, shape, tasks1, page_results,
                   all_apps, tasks2, all_data, sessions, future_to_app, call>>

\* The loop over as_completed(future_to_page) takes a finished future.
CollectPage(q) ==
    /\ pc = "round1"
    /\ q \in as_completed_next(waiter[1], tasks1)
    /\ tasks1' = [tasks1 EXCEPT ![q].collected = TRUE]
    /\ waiter' = [waiter EXCEPT ![1] = yield_future(@, q)]
    /\ IF tasks1[q].st = "returned"
       THEN /\ page_results' = (q :> tasks1[q].val) @@ page_results
            /\ UNCHANGED pc
       ELSE /\ pc' = round1_on_error(tasks1[q].st)
            /\ UNCHANGED page_results
    /\ UNCHANGED <<config, discovery, main_attempt, shape, all_apps, tasks2, all_data,
                   sessions, future_to_app, call>>

\* as_completed is used up: the executor is left and all_apps is built.
EndRound1 ==
    /\ pc = "round1"
    /\ as_completed_exhausted(waiter[1], tasks1)
    /\ all_apps' = flatten(page_results, DOMAIN page_results)
    /\ pc' = "round2"
    /\ UNCHANGED <<config, discovery, main_attempt, shape, tasks1, page_results, tasks2,
                   all_data, sessions, waiter, future_to_app, call>>

\* executor.submit(_get_details_wrapper, (*app_data, config)) for the next
\* app_data of all_apps.
SubmitDetail ==
    /\ pc = "round2"
    /\ Len(tasks2) < Len(all_apps)
    /\ tasks2' = Append(tasks2, Queued)
    /\ future_to_app' = Append(future_to_app, all_apps[Len(tasks2) + 1])
    /\ UNCHANGED <<config, pc, discovery, main_attempt, shape, tasks1, page_results,
                   all_apps, all_data, sessions, waiter, call>>

\* A worker takes the next detail task: _get_details_wrapper up to its
\* first GET.
StartDetail(i, ok) ==
    /\ pc = "round2"
    /\ next_queued(tasks2, i)
    /\ worker_free(tasks2, config)
    /\ tasks2' = [tasks2 EXCEPT ![i].st = IF ok THEN "running" ELSE "raised"]
    /\ sessions' = IF ok THEN create_session(sessions, Task(2, i)) ELSE sessions
    /\ waiter' = IF ok THEN waiter ELSE [waiter EXCEPT ![2] = add_result(@, i)]
    /\ UNCHANGED <<config, pc, discovery, main_attempt, shape, tasks1, page_results,
                   all_apps, all_data, future_to_app, call>>

\* One GET of a running detail task, and get_app_details up to its next GET;
\* where it ends, the finally clause of the wrapper and the completion of
\* the future.
DetailGet(i, o) ==
    /\ pc = "round2"
    /\ i \in Running(tasks2)
    /\ LET r == get_app_details_step(tasks2[i].fattempt, o, config)
           used == session_get(sessions, Task(2, i), Task(2, i))
       IN  /\ tasks2' = [tasks2 EXCEPT ![i] =
                  IF r.end = "fetch"
                  THEN Future("running", 0, r.fattempt, FALSE, <<>>, FALSE)
                  ELSE IF r.end = "return"
                  THEN Future("returned", 0, 0, o \in Failures, r.val, FALSE)
                  ELSE Future("raised", 0, 0, o \in Failures, <<>>, FALSE)]
           /\ sessions' = IF r.end = "fetch" THEN used ELSE wrapper_finally(used, Task(2, i))
           /\ waiter' = IF r.end = "fetch" THEN waiter
                        ELSE [waiter EXCEPT ![2] = add_result(@, i)]
           /\ all_data' = worker_writes(all_data, i, r.val)
    /\ UNCHANGED <<config, pc, discovery, main_attempt, shape, tasks1, page_results,
                   all_apps, future_to_app, call>>

\* `for future in as_completed(future_to_app)` begins, every app submitted.
AsCompleted2 ==
    /\ pc = "round2"
    /\ Len(tasks2) = Len(all_apps)
    /\ ~waiter[2].installed
    /\ waiter' = [waiter EXCEPT ![2] = install_waiter(@, Done(tasks2))]
    /\ UNCHANGED <<config, pc, discovery, main_attempt, shape, tasks1, page_results,
                   all_apps, tasks2, all_data, sessions, future_to_app, call>>

\* The loop over as_completed(future_to_app) takes a finished future: the
\* result of the wrapper holds the app_data it was given and the details.
CollectDetail(i) ==
    /\ pc = "round2"
    /\ i \in as_completed_next(waiter[2], tasks2)
    /\ tasks2' = [tasks2 EXCEPT ![i].collected = TRUE]
    /\ waiter' = [waiter EXCEPT ![2] = yield_future(@, i)]
    /\ IF tasks2[i].st = "returned"
       THEN /\ all_data' = Append(all_data, app_dict(future_to_app[i], tasks2[i].val))
            /\ UNCHANGED pc
       ELSE /\ pc' = round2_on_error(tasks2[i].st)
            /\ UNCHANGED all_data
    /\ UNCHANGED <<config, discovery, main_attempt, shape, tasks1, page_results, all_apps,
                   sessions, future_to_app, call>>

\* as_completed is used up: scrape_all_pages and scrape_all return all_data.
EndRound2 ==
    /\ pc = "round2"
    /\ as_completed_exhausted(waiter[2], tasks2)
    /\ pc' = "returned"
    /\ UNCHANGED <<config, discovery, main_attempt, shape, tasks1, page_results, all_apps,
                   tasks2, all_data, sessions, waiter, future_to_app, call>>

Next ==
    \/ \E ok \in BOOLEAN : CreateSession(ok)
    \/ \E o \in RunOutcomes(FirstPages) : DiscoverGet(o)
    \/ SubmitPage
    \/ \E q \in DOMAIN tasks1, ok \in BOOLEAN : StartPage(q, ok)
    \/ \E q \in DOMAIN tasks1, o \in RunOutcomes(Pages) : PageGet(q, o)
    \/ AsCompleted1
    \/ \E q \in DOMAIN tasks1 : CollectPage(q)
    \/ EndRound1
    \/ SubmitDetail
    \/ \E i \in DOMAIN tasks2, ok \in BOOLEAN : StartDetail(i, ok)
    \/ \E i \in DOMAIN tasks2, o \in RunOutcomes(DetailPages) : DetailGet(i, o)
    \/ AsCompleted2
    \/ \E i \in DOMAIN tasks2 : CollectDetail(i)
    \/ EndRound2

Spec == Init /\ [][Next]_vars

\* The run under the assumption that every transport call returns and every
\* thread is scheduled: a step that can be taken is taken.
SpecFair == Spec /\ WF_vars(Next)

(***************************************************************************)
(* fetch_page alone: one call, every sequence of transport outcomes.       *)
(* call.outs lists the outcomes of the GETs made, call.sleeps the sleeps.  *)
(***************************************************************************)
InitFetch ==
    /\ config \in {Config(mr, DefaultMaxWorkers, rd) : mr \in 1..MaxFetchRetries, rd \in 1..MaxDelay}
    /\ Fresh("idle")
    /\ call = [fn |-> "fetch_page", st |-> "running", attempt |-> 0, outs |-> <<>>,
               sleeps |-> <<>>, val |-> None]

FetchGet(o) ==
    /\ call.fn = "fetch_page"
    /\ call.st = "running"
    /\ LET f == fetch_page_step(call.attempt, o, config)
       IN  call' = [call EXCEPT
               !.st = IF f.end = "retry" THEN "running"
                      ELSE IF f.end = "return" THEN "returned" ELSE "raised",
               !.attempt = IF f.end = "retry" THEN @ + 1 ELSE @,
               !.outs = Append(@, o),
               !.sleeps = @ \o f.sleeps,
               !.val = f.val]
    /\ UNCHANGED <<config, run_vars>>

NextFetch == \E o \in Outcomes(Pages \cup DetailPages) : FetchGet(o)

SpecFetch == InitFetch /\ [][NextFetch]_vars

(***************************************************************************)
(* scrape_page alone.  call.soups lists how each page attempt has ended:   *)
(* "none" (fetch_page returned None), "zero" (a document without rows),    *)
(* "rows" or "exc" (an exception); call.gets counts the GETs.              *)
(***************************************************************************)
PageBodies ==
    Bodies \cup {<<RowA, RowB>>, <<RowNoName, RowB>>, <<RowB, RowNoName>>, <<RowNoBold>>,
                 <<RowA, RowNoBold, RowB>>}

InitPage ==
    /\ config \in {Config(mr, DefaultMaxWorkers, DefaultRetryDelay) : mr \in 1..MaxFetchRetries}
    /\ Fresh("idle")
    /\ \E n \in 1..2, e \in 1..2 :
           call = [fn |-> "scrape_page", st |-> "running", page_num |-> n,
                   expected_items |-> e, attempt |-> 0, fattempt |-> 0, gets |-> 0,
                   soups |-> <<>>, rows |-> <<>>, val |-> <<>>]

ScrapeGet(o) ==
    /\ call.fn = "scrape_page"
    /\ call.st = "running"
    /\ LET f == fetch_page_step(call.fattempt, o, config)
           r == scrape_page_step(call.attempt, call.fattempt, o, config,
                                 call.page_num, call.expected_items)
           soup == IF f.end = "raise" THEN "exc"
                   ELSE IF f.val = None THEN "none"
                   ELSE IF Len(f.val.rows) = 0 THEN "zero" ELSE "rows"
       IN  call' = [call EXCEPT
               !.st = IF r.end = "fetch" THEN "running"
                      ELSE IF r.end = "return" THEN "returned" ELSE "raised",
               !.attempt = r.attempt,
               !.fattempt = r.fattempt,
               !.gets = @ + 1,
               !.soups = IF f.end = "retry" THEN @ ELSE Append(@, soup),
               !.rows = IF soup \in {"zero", "rows"} THEN f.val.rows ELSE @,
               !.val = r.val]
    /\ UNCHANGED <<config, run_vars>>

NextPage == \E o \in Outcomes({PageDoc(TotalMarker(0), b) : b \in PageBodies}) : ScrapeGet(o)

SpecPage == InitPage /\ [][NextPage]_vars

(***************************************************************************)
(* get_app_details alone.  call.fetched says how its fetch_page has ended: *)
(* "doc", "none" or "exc"; call.doc is the document, where there is one.   *)
(***************************************************************************)
PortsSection ==
    Section(H3({"Default Ports"}),
            Ul(<<Li(<<"8", "0">>, None), Li(<<" ">>, None), Li(<<" ", "4", "4", "3">>, None)>>),
            None)

ProductsSection ==
    Section(H3({"Affected Products"}), Ul(<<Li(<<"f">>, None), Li(<<"g">>, None)>>), None)

ImpactTechSection == Section(H3({"Impact", "Technology"}), None, Elem(<<"y", " ">>))

BehaviorSection == Section(H3({"Behavior"}), None, Elem(<<"b">>))

ReferencesSection ==
    Section(H3({"References"}),
            Ul(<<Li(<<"t">>, A(<<"u">>)), Li(<<"v">>, None), Li(<<"w">>, A(<<>>))>>), None)

OtherSection == Section(H3({}), None, Elem(<<"o">>))

\* A heading that holds two entries of the vocabulary, over a list of links.
PortsRefsSection ==
    Section(H3({"Default Ports", "References"}), Ul(<<Li(<<"9">>, A(<<"r">>))>>), None)

\* A Default Ports section without a list.
PortsNoListSection == Section(H3({"Default Ports"}), None, Elem(<<"p">>))

\* A second Impact section, and one without a paragraph.
ImpactAgainSection == Section(H3({"Impact"}), None, Elem(<<"z">>))

ImpactNoParaSection == Section(H3({"Impact"}), Ul(<<Li(<<"i">>, None)>>), None)

NoHeadingSection == Section(None, None, Elem(<<"n">>))

Sections ==
    {PortsSection, ProductsSection, ImpactSection, ImpactTechSection, BehaviorSection,
     ReferencesSection, OtherSection, NoHeadingSection, FaultySection, PortsRefsSection,
     PortsNoListSection, ImpactAgainSection, ImpactNoParaSection}

RECURSIVE SeqsUpTo(_, _)
SeqsUpTo(S, n) ==
    IF n = 0 THEN {<<>>}
    ELSE LET shorter == SeqsUpTo(S, n - 1)
         IN  shorter \cup {Append(q, x) : q \in shorter, x \in S}

DetailDocs == {DetailDoc(q) : q \in SeqsUpTo(Sections, MaxSections)}

InitDetails ==
    /\ config \in {Config(mr, DefaultMaxWorkers, DefaultRetryDelay) : mr \in 1..MaxFetchRetries}
    /\ Fresh("idle")
    /\ call = [fn |-> "get_app_details", st |-> "running", fattempt |-> 0, gets |-> 0,
               fetched |-> "", doc |-> None, val |-> EmptyDetails]

DetailsGet(o) ==
    /\ call.fn = "get_app_details"
    /\ call.st = "running"
    /\ LET f == fetch_page_step(call.fattempt, o, config)
           r == get_app_details_step(call.fattempt, o, config)
       IN  call' = [call EXCEPT
               !.st = IF r.end = "fetch" THEN "running"
                      ELSE IF r.end = "return" THEN "returned" ELSE "raised",
               !.fattempt = r.fattempt,
               !.gets = @ + 1,
               !.fetched = IF f.end = "retry" THEN ""
                           ELSE IF f.end = "raise" THEN "exc"
                           ELSE IF f.val = None THEN "none" ELSE "doc",
               !.doc = f.val,
               !.val = r.val]
    /\ UNCHANGED <<config, run_vars>>

NextDetails == \E o \in Outcomes(DetailDocs) : DetailsGet(o)

SpecDetails == InitDetails /\ [][NextDetails]_vars

(***************************************************************************)
(* The two callers of fetch_page side by side: one call of scrape_page or  *)
(* one call of get_app_details, call.gets counting its session.get calls.  *)
(***************************************************************************)
InitCalls == InitPage \/ InitDetails

NextCalls == NextPage \/ NextDetails

SpecCalls == InitCalls /\ [][NextCalls]_vars

(***************************************************************************)
(* The two as_completed loops of scrape_all_pages alone, over futures that *)
(* have finished: page q has raised, or returned the records of its first  *)
(* rows; a detail task is found returned or raised when its future is      *)
(* taken.  The futures are taken in any order.  page_keys is               *)
(* page_results.keys(): the keys of the dict, in insertion order.          *)
(***************************************************************************)
MergeRecord(q, r) ==
    [extract_app_data(IF r = 1 THEN RowA ELSE RowB) EXCEPT !.app_id = 10 * q + r]

MergePageResults(q) ==
    {Future("raised", 0, 0, FALSE, <<>>, FALSE)}
    \cup {Future("returned", 0, 0, FALSE, [r \in 1..n |-> MergeRecord(q, r)], FALSE) :
              n \in 0..2}

MergeDetails == detail_items(EmptyDetails, <<ImpactSection>>)

InitMerge ==
    /\ config = Config(1, DefaultMaxWorkers, DefaultRetryDelay)
    /\ Fresh("idle")
    /\ \E n \in 1..MaxTotal :
       \E fs \in [1..n -> UNION {MergePageResults(q) : q \in 1..n}] :
           /\ \A q \in 1..n : fs[q] \in MergePageResults(q)
           /\ call = [fn |-> "scrape_all_pages", st |-> "round1", future_to_page |-> fs,
                      page_results |-> <<>>, page_keys |-> <<>>, all_apps |-> <<>>,
                      results |-> <<>>, all_data |-> <<>>]

MergeCollectPage(q) ==
    /\ call.fn = "scrape_all_pages"
    /\ call.st = "round1"
    /\ q \in DOMAIN call.future_to_page
    /\ ~call.future_to_page[q].collected
    /\ call' = IF call.future_to_page[q].st = "returned"
               THEN [call EXCEPT
                        !.future_to_page[q].collected = TRUE,
                        !.page_results = (q :> call.future_to_page[q].val) @@ @,
                        !.page_keys = Append(@, q)]
               ELSE [call EXCEPT
                        !.future_to_page[q].collected = TRUE,
                        !.st = round1_on_error(call.future_to_page[q].st)]
    /\ UNCHANGED <<config, run_vars>>

MergeFlatten ==
    /\ call.fn = "scrape_all_pages"
    /\ call.st = "round1"
    /\ \A q \in DOMAIN call.future_to_page : call.future_to_page[q].collected
    /\ call' = [call EXCEPT !.st = "round2",
                            !.all_apps = all_apps_sorted(call.page_results, call.page_keys)]
    /\ UNCHANGED <<config, run_vars>>

MergeCollectDetail(i, st) ==
    /\ call.fn = "scrape_all_pages"
    /\ call.st = "round2"
    /\ i \in DOMAIN call.all_apps \ DOMAIN call.results
    /\ call' = IF st = "returned"
               THEN [call EXCEPT
                        !.results = (i :> st) @@ @,
                        !.all_data = Append(@, app_dict(call.all_apps[i], MergeDetails))]
               ELSE [call EXCEPT !.results = (i :> st) @@ @, !.st = round2_on_error(st)]
    /\ UNCHANGED <<config, run_vars>>

MergeReturn ==
    /\ call.fn = "scrape_all_pages"
    /\ call.st = "round2"
    /\ DOMAIN call.results = DOMAIN call.all_apps
    /\ call' = [call EXCEPT !.st = "returned"]
    /\ UNCHANGED <<config, run_vars>>

NextMerge ==
    \/ \E q \in 1..MaxTotal : MergeCollectPage(q)
    \/ MergeFlatten
    \/ \E i \in 1..(2 * MaxTotal), st \in {"returned", "raised"} : MergeCollectDetail(i, st)
    \/ MergeReturn

SpecMerge == InitMerge /\ [][NextMerge]_vars

(***************************************************************************)
(* calculate_total_pages alone: small totals, the totals of the spec's     *)
(* examples, and totals around 2^52, 2^53 and 2^54.                        *)
(***************************************************************************)
Totals ==
    {Small(n) : n \in 0..MaxSmallTotal} \cup {Small(2500), Small(6556)}
    \cup {Big(hi, lo) : hi \in {2 ^ 26 - 1, 2 ^ 26, 3 * 2 ^ 25, 2 ^ 27 - 1, 2 ^ 27, 2 ^ 28 - 1},
                        lo \in 0..3}

PerPages == 0..MaxPerPage \cup {25}

InitPages ==
    /\ config = Config(1, DefaultMaxWorkers, DefaultRetryDelay)
    /\ Fresh("idle")
    /\ \E t \in Totals, d \in PerPages :
           call = [fn |-> "calculate_total_pages", st |-> "running", total_appids |-> t,
                   items_per_page |-> d, val |-> Small(0)]

PagesCall ==
    /\ call.fn = "calculate_total_pages"
    /\ call.st = "running"
    /\ LET r == calculate_total_pages(call.total_appids, call.items_per_page)
       IN  call' = IF r.raised # ""
                   THEN [call EXCEPT !.st = "raised"]
                   ELSE [call EXCEPT !.st = "returned", !.val = r.val]
    /\ UNCHANGED <<config, run_vars>>

NextPages == PagesCall

SpecPages == InitPages /\ [][NextPages]_vars

(***************************************************************************)
(* extract_app_data on its own: one call on a row whose bolded name is any *)
(* text of up to MaxNameLen characters over a letter, a blank and the two  *)
(* parentheses, or the name of the source's own example.                   *)
(***************************************************************************)
NameChars == {"D", " ", "(", ")"}

DnfUpdate == <<"D", "N", "F", " ", "(", "U", "p", "d", "a", "t", "e", ")">>

BoldTexts ==
    UNION {[1..n -> NameChars] : n \in 0..MaxNameLen} \cup {DnfUpdate}

InitName ==
    /\ config = Config(1, DefaultMaxWorkers, DefaultRetryDelay)
    /\ Fresh("idle")
    /\ \E t \in BoldTexts :
           call = [fn |-> "extract_app_data", st |-> "running",
                   row |-> Row(1, TRUE, Elem(t), <<None, None>>, <<0, 0, 0, 0>>),
                   val |-> None]

NameCall ==
    /\ call.fn = "extract_app_data"
    /\ call.st = "running"
    /\ call' = [call EXCEPT !.st = "returned", !.val = extract_app_data(call.row)]
    /\ UNCHANGED <<config, run_vars>>

NextName == NameCall

SpecName == InitName /\ [][NextName]_vars

(***************************************************************************)
(* Claims.                                                                 *)
(***************************************************************************)
Kinds(outs) == {outs[k].kind : k \in DOMAIN outs}

AllFailed(outs) == \A k \in DOMAIN outs : outs[k] \in Failures

\* C1: fetch_page, for every sequence of transport outcomes (a document, a
\* connection/TLS failure, any other RequestException) and every
\* max_retries >= 1, makes at most max_retries attempts; it goes on only
\* after a failure and only while attempts are left; it does not raise; it
\* returns the document of its first successful attempt, which is its last
\* attempt; and it returns None exactly when max_retries attempts were made
\* and all of them failed.
FetchPageContract ==
    call.fn = "fetch_page" =>
        LET outs == call.outs
            n == Len(outs)
        IN  /\ n <= config.max_retries
            /\ "exc" \notin Kinds(outs) =>
                /\ call.st # "raised"
                /\ call.st = "running" => AllFailed(outs) /\ n < config.max_retries
                /\ call.st = "returned" =>
                    /\ n >= 1
                    /\ AllFailed(SubSeq(outs, 1, n - 1))
                    /\ outs[n].kind = "ok" => call.val = outs[n].doc /\ call.val # None
                    /\ outs[n].kind # "ok" => call.val = None /\ n = config.max_retries
                    /\ call.val = None <=> (AllFailed(outs) /\ n = config.max_retries)

\* C1, witness: fetch_page has returned None after max_retries >= 2 attempts
\* that all failed.
FetchPageExhausted ==
    /\ call.fn = "fetch_page"
    /\ call.st = "returned"
    /\ call.val = None
    /\ config.max_retries >= 2
    /\ Len(call.outs) = config.max_retries
    /\ AllFailed(call.outs)

\* fetch_page has returned a document after a failed attempt.
FetchPageSecondTry ==
    /\ call.fn = "fetch_page"
    /\ call.st = "returned"
    /\ call.val # None
    /\ Len(call.outs) >= 2

HasFaulty(doc) == \E k \in DOMAIN doc.sections : doc.sections[k].faulty

\* C2: get_app_details never fails: whenever the fetch fails or an error
\* occurs at any point while the sections of the detail page are parsed, it
\* returns (does not raise) a DetailFields whose six fields are all the
\* empty string.
DetailsAllEmptyOnAnyError ==
    (/\ call.fn = "get_app_details"
     /\ call.st # "running"
     /\ call.fetched \in {"none", "exc"} \/ (call.fetched = "doc" /\ HasFaulty(call.doc)))
    => call.st = "returned" /\ call.val = EmptyDetails

\* What holds of get_app_details: it never raises, a failed fetch gives the
\* all-empty fields, and an error while a section is read gives the fields
\* as the sections before it have left them.
DetailsNeverRaises ==
    call.fn = "get_app_details" =>
        /\ call.st # "raised"
        /\ call.gets <= config.max_retries
        /\ (call.st = "returned" /\ call.fetched \in {"none", "exc"}) => call.val = EmptyDetails
        /\ (call.st = "returned" /\ call.fetched = "doc") =>
               call.val = detail_items(EmptyDetails, call.doc.sections)

\* An error after a section that has set a field.
DetailsErrorAfterField ==
    /\ call.fn = "get_app_details"
    /\ call.st = "returned"
    /\ call.fetched = "doc"
    /\ HasFaulty(call.doc)
    /\ call.val # EmptyDetails

AllZero(soups) == \A k \in DOMAIN soups : soups[k] = "zero"

\* C8: scrape_page retries a page that returns 0 rows: as long as every page
\* attempt yields a document with zero row elements, the call goes on until
\* it has made exactly max_retries page attempts, and then returns the empty
\* sequence; it does not raise.
ZeroRowsRetried ==
    (call.fn = "scrape_page" /\ AllZero(call.soups)) =>
        /\ call.st # "raised"
        /\ call.st = "running" => Len(call.soups) < config.max_retries
        /\ call.st = "returned" =>
               Len(call.soups) = config.max_retries /\ call.val = <<>>

\* C8, witness: with max_retries >= 2, scrape_page has returned after page
\* attempts that all found a document of zero rows.
ZeroRowsExhausted ==
    /\ call.fn = "scrape_page"
    /\ call.st = "returned"
    /\ config.max_retries >= 2
    /\ Len(call.soups) = config.max_retries
    /\ AllZero(call.soups)

\* C9: calculate_total_pages(total, perPage) is the ceiling of
\* total / perPage, the least n with n * perPage >= total, for every
\* total >= 0 and perPage >= 1, and raises for every total when perPage is 0.
TotalPagesIsCeiling ==
    (call.fn = "calculate_total_pages" /\ call.st # "running") =>
        IF call.items_per_page = 0
        THEN call.st = "raised"
        ELSE /\ call.st = "returned"
             /\ call.val = ExactCeil(call.total_appids, call.items_per_page)

\* What holds of calculate_total_pages: the claim for the totals below 2^52
\* (hi < 2^26), where the float quotient still tells a whole number from
\* the next fraction.
TotalPagesIsCeilingBelow2p52 ==
    (call.fn = "calculate_total_pages" /\ call.st # "running") =>
        IF call.items_per_page = 0
        THEN call.st = "raised"
        ELSE /\ call.st = "returned"
             /\ call.total_appids[1] < 2 ^ 26 =>
                    call.val = ExactCeil(call.total_appids, call.items_per_page)

\* calculate_total_pages(2500, 25) has returned 100.
TotalPagesExample ==
    /\ call.fn = "calculate_total_pages"
    /\ call.st = "returned"
    /\ call.total_appids = Small(2500)
    /\ call.items_per_page = 25
    /\ call.val = Small(100)

Returned(tasks) == {t \in DOMAIN tasks : tasks[t].st = "returned"}

Raised(tasks) == {t \in DOMAIN tasks : tasks[t].st = "raised"}

InOutput(record) == \E j \in DOMAIN all_data : all_data[j] = record

\* C3: a partial record of round 1 whose detail fetch has failed at transport
\* level on every attempt keeps its place: its task returns the all-empty
\* detail fields, and from the moment its result is collected, and so in the
\* final output, all_data holds an AppRecord with the record's app_id, name,
\* description, category, risk and popularity and six empty detail fields.
FailedDetailKeepsRecord ==
    \A i \in DOMAIN tasks2 :
        tasks2[i].exhausted =>
            /\ tasks2[i].st = "returned"
            /\ tasks2[i].val = EmptyDetails
            /\ tasks2[i].collected => InOutput(app_dict(all_apps[i], EmptyDetails))
            /\ pc = "returned" => tasks2[i].collected

\* C3, witness: the run has returned, max_retries is 2, and a detail task
\* whose every attempt failed has its record in the output.
FailedDetailInOutput ==
    /\ pc = "returned"
    /\ config.max_retries >= 2
    /\ \E i \in DOMAIN tasks2 :
           /\ tasks2[i].exhausted
           /\ InOutput(app_dict(all_apps[i], EmptyDetails))
           /\ all_apps[i].app_name # <<>>

\* C4: in both rounds an uncaught error of a task is caught where its result
\* is collected and the round goes on: the orchestrating flow never raises
\* for it; a round ends only when every one of its tasks has finished and
\* has been collected; and only the raising tasks' contributions are
\* missing: page_results holds exactly the pages whose task returned, with
\* their data, and all_data one record for each detail task that returned.
TaskErrorIsolated ==
    /\ (\E q \in Raised(tasks1) : tasks1[q].collected) => pc \in {"round1", "round2", "returned"}
    /\ (\E i \in Raised(tasks2) : tasks2[i].collected) => pc \in {"round2", "returned"}
    /\ pc \in {"round2", "returned"} =>
        /\ DOMAIN tasks1 = 1..shape.pages
        /\ \A q \in DOMAIN tasks1 : tasks1[q].collected /\ q \in Done(tasks1)
        /\ DOMAIN page_results = Returned(tasks1)
        /\ \A q \in Returned(tasks1) : page_results[q] = tasks1[q].val
    /\ pc = "returned" =>
        /\ \A i \in DOMAIN tasks2 : tasks2[i].collected /\ i \in Done(tasks2)
        /\ Len(all_data) = Cardinality(Returned(tasks2))
        /\ \A i \in Returned(tasks2) : InOutput(app_dict(all_apps[i], tasks2[i].val))

\* C4, witness: round 1 is over, one page task has raised, and a page task
\* that finished after it has its records in page_results and in all_apps.
PageErrorIsolated ==
    /\ pc \in {"round2", "returned"}
    /\ \E q \in Raised(tasks1), r \in Returned(tasks1) :
           /\ q < r
           /\ page_results[r] # <<>>
           /\ all_apps = page_results[r]

\* C5: once discovery has succeeded, scrape_all does not raise, whatever page
\* fetches fail, pages are empty, rows are malformed, detail fetches fail or
\* tasks raise: it returns a record set with at most one record for each
\* partial record.
OnlyDiscoveryPropagates ==
    discovery.state = "ok" =>
        /\ pc \in {"round1", "round2", "returned"}
        /\ Len(all_data) <= Len(all_apps)

\* C5, witness: the run has returned although a page came back empty, a
\* detail task raised and a detail fetch failed on every attempt.
ReturnedDespiteFailures ==
    /\ pc = "returned"
    /\ \E q \in Returned(tasks1) : page_results[q] = <<>>
    /\ Raised(tasks2) # {}
    /\ Len(all_data) < Len(all_apps)

\* Discovery has met one of its fatal conditions: page 1 could not be
\* fetched, holds no parseable total, or holds no catalog row.
DiscoveryFailed ==
    /\ discovery.state # "pending"
    /\ \/ discovery.soup = None
       \/ discovery.soup.marker.kind # "total"
       \/ Len(discovery.soup.rows) = 0

\* C6: if discovery fails, scrape_all raises, and no page task, no detail
\* task is ever started and no record is produced; a run that raises has
\* produced no output.
DiscoveryFailureAborts ==
    /\ DiscoveryFailed =>
           /\ pc = "raised"
           /\ discovery.state \in {"RuntimeError", "ValueError", "Exception"}
    /\ pc = "raised" =>
           /\ tasks1 = <<>>
           /\ page_results = <<>>
           /\ tasks2 = <<>>
           /\ all_data = <<>>

\* C6, witness: page 1 was fetched and holds a total but no row, and
\* scrape_all has raised.
DiscoveryFoundNoRows ==
    /\ pc = "raised"
    /\ discovery.state = "ValueError"
    /\ discovery.soup # None
    /\ discovery.soup.marker.kind = "total"
    /\ discovery.soup.rows = <<>>

\* C7: in every final output of scrape_all_pages the app_id values are
\* unique, whatever rows the catalog pages returned.
AppIdsUnique ==
    pc = "returned" =>
        \A j, k \in DOMAIN all_data : j # k => all_data[j].app_id # all_data[k].app_id

\* C10: in each round at most max_workers tasks are executing at any moment;
\* with the default max_workers = 1 the tasks execute one at a time.
PoolBounded ==
    /\ Cardinality(Running(tasks1)) <= config.max_workers
    /\ Cardinality(Running(tasks2)) <= config.max_workers
    /\ config.max_workers = DefaultMaxWorkers =>
           Cardinality(Running(tasks1)) <= 1 /\ Cardinality(Running(tasks2)) <= 1

\* C10, witness: max_workers tasks of round 2 are executing and a further
\* task waits in the queue.
PoolSaturated ==
    /\ Cardinality(Running(tasks2)) = config.max_workers
    /\ \E i \in DOMAIN tasks2 : tasks2[i].st = "queued"

\* Two tasks execute at the same moment.
TwoTasksRunning == Cardinality(Running(tasks1)) = 2

(***************************************************************************)
(* fetch_page: the sleeps.                                                 *)
(***************************************************************************)
\* The attempts of the call that were followed by another attempt.
Retried == 1..(IF call.st = "running" THEN Len(call.outs) ELSE Len(call.outs) - 1)

\* The sleeps of a call whose k-th attempt (attempt index k - 1), where it
\* was followed by another attempt, slept delay[k] after failing: the warm-up
\* before every attempt, the delay after every retried one.
RECURSIVE SleepsOf(_, _, _)
SleepsOf(k, n, delay) ==
    IF k > n THEN <<>>
    ELSE (IF k \in Retried THEN <<WarmUp, delay[k]>> ELSE <<WarmUp>>) \o SleepsOf(k + 1, n, delay)

LastHasRows == call.soups # <<>> /\ call.soups[Len(call.soups)] = "rows"

\* C17: in scrape_page, for a page number > 1, a page attempt whose document
\* has a nonzero row count different from expected_items ends the retry
\* loop: the call returns the rows extracted from that document, and no
\* further page attempt is made.
MismatchNotRetried ==
    (/\ call.fn = "scrape_page"
     /\ call.page_num > 1
     /\ LastHasRows
     /\ Len(call.rows) # call.expected_items) =>
        /\ call.st = "returned"
        /\ call.val = extract_rows(call.rows)
        /\ call.attempt = Len(call.soups) - 1

\* C17, witness: page 2, after a first page attempt without rows and with
\* attempts left, has returned the two records of a document of two rows
\* where one row was expected.
MismatchReturned ==
    /\ call.fn = "scrape_page"
    /\ call.page_num = 2
    /\ call.expected_items = 1
    /\ config.max_retries >= 3
    /\ call.soups = <<"zero", "rows">>
    /\ call.st = "returned"
    /\ Len(call.rows) = 2
    /\ Len(call.val) = 2

\* The structural conditions of a row: it has the name column and, in it,
\* the bolded name.  (Every row element has the /appcontrol/<digits> target:
\* scrape_page selects the row elements by it.)
Extracts(row) == row.name_col /\ row.bold # None

\* C18: in scrape_page, rows are extracted independently: a row that fails
\* structural extraction is dropped without aborting the page; the returned
\* sequence is the records of exactly the rows that extract, in their
\* document order, so its length never exceeds the row count.
FailedRowsDropped ==
    (call.fn = "scrape_page" /\ LastHasRows) =>
        LET kept == SelectSeq(call.rows, Extracts)
        IN  /\ call.st = "returned"
            /\ Len(call.val) = Len(kept)
            /\ Len(call.val) <= Len(call.rows)
            /\ \A k \in DOMAIN kept :
                   /\ call.val[k] = extract_app_data(kept[k])
                   /\ call.val[k].app_id = kept[k].app_id

\* C18, witness: of three rows the second has no bolded name; the call has
\* returned the records of the first and the third.
MiddleRowDropped ==
    /\ call.fn = "scrape_page"
    /\ call.st = "returned"
    /\ call.rows = <<RowA, RowNoBold, RowB>>
    /\ Len(call.val) = 2
    /\ call.val[1].app_id = 1
    /\ call.val[2].app_id = 2

(***************************************************************************)
(* get_app_details: the dispatch of the sections.                          *)
(***************************************************************************)
Vocabulary ==
    <<"Default Ports", "Affected Products", "Impact", "Technology", "Behavior", "References">>

FieldNames ==
    <<"default_ports", "affected_products", "impact", "technology", "behavior", "references">>

\* The index of the first vocabulary entry that the heading of the section
\* contains; 0 when it has no heading or its heading contains none.
Dispatch(item) ==
    IF item.h3 = None \/ \A i \in 1..6 : Vocabulary[i] \notin item.h3.contains THEN 0
    ELSE CHOOSE i \in 1..6 :
             /\ Vocabulary[i] \in item.h3.contains
             /\ \A j \in 1..(i - 1) : Vocabulary[j] \notin item.h3.contains

\* The section has the body element that the rule of entry i reads.
Provides(item, i) ==
    IF i \in {1, 6} THEN item.ul # None
    ELSE IF i \in {3, 4} THEN item.p # None
    ELSE item.ul # None \/ item.p # None

\* A call that has returned from a document all of whose sections were read.
DetailsRead ==
    /\ call.fn = "get_app_details"
    /\ call.st = "returned"
    /\ call.fetched = "doc"
    /\ ~HasFaulty(call.doc)

\* The fields after the first k sections of the document.
After(k) == detail_items(EmptyDetails, SubSeq(call.doc.sections, 1, k))

\* C19: in get_app_details each section is dispatched to at most one field:
\* the heading is tested against the vocabulary in the order Default Ports,
\* Affected Products, Impact, Technology, Behavior, References, and the
\* first entry it contains wins: the section sets that entry's field (from
\* the section alone) and leaves the five others as they were; a section
\* with no heading or whose heading contains no entry leaves all six.
FirstEntryWins ==
    DetailsRead =>
        /\ call.val = After(Len(call.doc.sections))
        /\ \A k \in DOMAIN call.doc.sections :
               LET item == call.doc.sections[k]
                   d == Dispatch(item)
               IN  /\ \A i \in 1..6 : i # d => After(k)[FieldNames[i]] = After(k - 1)[FieldNames[i]]
                   /\ (d # 0 /\ Provides(item, d)) =>
                          After(k)[FieldNames[d]] =
                              detail_items(EmptyDetails, <<item>>)[FieldNames[d]]

\* C19, witness: a section headed with both Impact and Technology, after a
\* section of another heading, has set impact and left technology empty.
TwoEntriesOneField ==
    /\ DetailsRead
    /\ call.doc.sections = <<OtherSection, ImpactTechSection>>
    /\ call.val.impact = <<"y">>
    /\ call.val.technology = <<>>

\* The sections of the document that are dispatched to entry i.
Matching(i) == {k \in DOMAIN call.doc.sections : Dispatch(call.doc.sections[k]) = i}

\* The last of a nonempty set of section indexes.
Last(K) == CHOOSE k \in K : \A j \in K : j <= k

\* The value of field i that get_app_details extracts from section k alone.
Alone(k, i) == detail_items(EmptyDetails, <<call.doc.sections[k]>>)[FieldNames[i]]

\* C20, as the code has it: when several sections match the same entry, the
\* last of them that has the body element the entry's rule reads wins: the
\* field is the value extracted from that section alone (overwrite, no
\* accumulation); a matching section without that element leaves the field
\* as it was, and a field no such section matches is empty.
LastSectionWithBodyWins ==
    DetailsRead =>
        \A i \in 1..6 :
            LET K == {k \in Matching(i) : Provides(call.doc.sections[k], i)}
            IN  call.val[FieldNames[i]] = IF K = {} THEN <<>> ELSE Alone(Last(K), i)

\* C20, witness: two Impact sections with a paragraph each: the field is
\* the text of the second.
SecondImpactWins ==
    /\ DetailsRead
    /\ call.doc.sections = <<ImpactSection, ImpactAgainSection>>
    /\ call.val.impact = <<"z">>

\* C20, as stated: the field is the value extracted from the last matching
\* section alone, for every body shape of the sections.
LastSectionWins ==
    DetailsRead =>
        \A i \in 1..6 :
            call.val[FieldNames[i]] =
                IF Matching(i) = {} THEN <<>> ELSE Alone(Last(Matching(i)), i)

(***************************************************************************)
(* The run: sessions, termination, the order of submission and collection. *)
(***************************************************************************)
SessionsOf(owner) == {k \in DOMAIN sessions : sessions[k].owner = owner}

\* The sessions of the tasks of a round, as the state of each task requires:
\* none before the task has started, one open session while it runs, no open
\* session, and at most one session, when it has ended.
TaskSessions(round, tasks) ==
    \A t \in DOMAIN tasks :
        LET mine == SessionsOf(Task(round, t))
        IN  /\ Cardinality(mine) <= 1
            /\ tasks[t].st = "queued" => mine = {}
            /\ tasks[t].st = "running" => \E k \in mine : sessions[k].open
            /\ tasks[t].st \in {"returned", "raised"} => \A k \in mine : ~sessions[k].open
            /\ tasks[t].st = "returned" => mine # {}

\* C11: every page task and every detail task creates its own transport
\* session; no session is ever used by two tasks (a session is used by the
\* flow that created it only); the task closes its session when it ends,
\* whether it returns or raises; and when a round has finished no session
\* created by one of its tasks is still open.
SessionsOwnedAndClosed ==
    /\ \A k \in DOMAIN sessions : sessions[k].users \subseteq {sessions[k].owner}
    /\ TaskSessions(1, tasks1)
    /\ TaskSessions(2, tasks2)
    /\ pc \in {"round2", "returned"} =>
           \A k \in DOMAIN sessions : sessions[k].owner.round = 1 => ~sessions[k].open
    /\ pc = "returned" =>
           \A k \in DOMAIN sessions : sessions[k].owner.round = 2 => ~sessions[k].open

\* C11, witness: the run has returned; a page task that raised after a GET
\* and a detail task that returned have each used and closed a session of
\* their own, while the other detail task still ran.
SessionsClosedAfterRaise ==
    /\ pc = "returned"
    /\ \E q \in Raised(tasks1) : \E k \in SessionsOf(Task(1, q)) :
           sessions[k].users = {Task(1, q)} /\ ~sessions[k].open
    /\ \E i \in Returned(tasks2) : \E k \in SessionsOf(Task(2, i)) :
           sessions[k].users = {Task(2, i)} /\ ~sessions[k].open
    /\ Len(sessions) >= 4

\* The largest number of tasks of a round: a page per declared record, a
\* record per page.
MaxTasks == MaxTotal

\* C12: assuming every transport call returns, every submitted task of a
\* round eventually finishes, no task is unfinished when its round ends, and
\* the run eventually ends: it returns whenever discovery has succeeded.
RunTerminates ==
    /\ [](pc \in {"round2", "returned"} => Done(tasks1) = DOMAIN tasks1)
    /\ [](pc = "returned" => Done(tasks2) = DOMAIN tasks2)
    /\ \A t \in 1..MaxTasks : (t \in DOMAIN tasks1) ~> (t \in Done(tasks1))
    /\ \A t \in 1..MaxTasks : (t \in DOMAIN tasks2) ~> (t \in Done(tasks2))
    /\ (discovery.state = "ok") ~> (pc = "returned")
    /\ <>(pc \in {"returned", "raised"})

\* The ground of C12, as a property of single steps: Progress is a number
\* that every step of the run raises and that never exceeds ProgressBound,
\* and a run that has not ended can take a step.  So no behaviour of Spec
\* takes more than ProgressBound steps, and under SpecFair every behaviour
\* reaches the end.
PcRank ==
    CASE pc = "start" -> 0
      [] pc = "discover" -> 1
      [] pc = "round1" -> 2
      [] pc = "round2" -> 3
      [] OTHER -> 4

TaskRank(f) ==
    (IF f.st = "queued" THEN 0
     ELSE IF f.st = "running" THEN 1 + f.attempt * config.max_retries + f.fattempt
     ELSE 2 + config.max_retries * config.max_retries)
    + (IF f.collected THEN 1 ELSE 0)

RECURSIVE RoundRank(_, _)
RoundRank(tasks, n) == IF n = 0 THEN 0 ELSE RoundRank(tasks, n - 1) + 1 + TaskRank(tasks[n])

Progress ==
    PcRank + main_attempt
        + RoundRank(tasks1, Len(tasks1)) + (IF waiter[1].installed THEN 1 ELSE 0)
        + RoundRank(tasks2, Len(tasks2)) + (IF waiter[2].installed THEN 1 ELSE 0)

ProgressBound ==
    4 + config.max_retries + 2 + 2 * MaxTasks * (4 + config.max_retries * config.max_retries)

RunProgresses ==
    /\ [][Progress' > Progress]_vars
    /\ [](Progress <= ProgressBound)
    /\ [](pc \notin {"returned", "raised"} => ENABLED Next)

\* C12, witness: with two retries and one worker, a run of two page tasks
\* and two detail tasks has returned.
SerialRunReturned ==
    /\ pc = "returned"
    /\ config.max_retries = MaxRetries
    /\ config.max_workers = 1
    /\ Len(tasks1) = 2
    /\ Len(tasks2) = 2

\* The step hands the result of future t to the orchestrating flow.
Consumes(old, new, t) == ~old[t].collected /\ new[t].collected

\* C14, as the code has it: in each round, all tasks of the round are
\* submitted before the orchestrating flow consumes any result; a result is
\* consumed only when its task has finished; the futures found finished
\* when the consumption begins are consumed first, in no particular order,
\* and the others in the order they finish, which may differ from the
\* submission order.
ConsumedAfterSubmitAll(old, new, w, n) ==
    \A t \in DOMAIN old :
        Consumes(old, new, t) =>
            /\ w.installed
            /\ Len(old) = n
            /\ t \in Done(old)
            /\ w.pre # {} => t \in w.pre
            /\ w.pre = {} => t = Head(w.finished)

SubmitAllThenAsCompleted ==
    [][/\ ConsumedAfterSubmitAll(tasks1, tasks1', waiter[1], shape.pages)
       /\ ConsumedAfterSubmitAll(tasks2, tasks2', waiter[2], Len(all_apps))]_vars

\* C14, witness: the result of page 2 has been consumed while page 1, which
\* was submitted before it, is still running.
SecondPageConsumedFirst ==
    /\ pc = "round1"
    /\ Len(tasks1) = 2
    /\ tasks1[2].collected
    /\ tasks1[1].st = "running"

\* C14, as stated: every result is consumed in completion order: the future
\* consumed is the one that finished first among those not yet consumed.
ConsumedInCompletionOrder ==
    [][/\ \A t \in DOMAIN tasks1 :
              Consumes(tasks1, tasks1', t) =>
                  Len(tasks1) = shape.pages /\ t = Head(waiter[1].finished)
       /\ \A t \in DOMAIN tasks2 :
              Consumes(tasks2, tasks2', t) =>
                  Len(tasks2) = Len(all_apps) /\ t = Head(waiter[2].finished)]_vars

\* The records of the pages 1..n whose task returned, page after page.
RECURSIVE PageRecords(_)
PageRecords(n) ==
    IF n = 0 THEN <<>>
    ELSE PageRecords(n - 1) \o (IF tasks1[n].st = "returned" THEN tasks1[n].val ELSE <<>>)

\* C15: round 2 starts only after every round-1 page task (pages
\* 1..total_pages) has finished, and submits exactly one detail task per
\* partial record collected in round 1: the tasks of round 2 are given, one
\* each, the records of the flattening of the collected pages, none added,
\* dropped or duplicated.
Round2IsFlattenedRound1 ==
    /\ pc \notin {"round2", "returned"} => tasks2 = <<>> /\ future_to_app = <<>>
    /\ pc \in {"round2", "returned"} =>
           /\ DOMAIN tasks1 = 1..shape.pages
           /\ Done(tasks1) = DOMAIN tasks1
           /\ all_apps = PageRecords(shape.pages)
           /\ Len(tasks2) = Len(future_to_app)
           /\ future_to_app = SubSeq(all_apps, 1, Len(future_to_app))
           /\ waiter[2].installed => future_to_app = all_apps

\* C15, witness: round 2 has submitted its two tasks, one for the record of
\* page 1 and one for the different record of page 2.
Round2Submitted ==
    /\ pc = "round2"
    /\ waiter[2].installed
    /\ Len(tasks1) = 2
    /\ Len(tasks1[1].val) = 1
    /\ Len(tasks1[2].val) = 1
    /\ tasks1[1].val # tasks1[2].val
    /\ future_to_app = tasks1[1].val \o tasks1[2].val

\* A task of the round takes a step of its own (it starts, fetches or ends).
WorkerStep(old, new) ==
    \E t \in DOMAIN old :
        old[t].st # new[t].st \/ old[t].attempt # new[t].attempt
            \/ old[t].fattempt # new[t].fattempt

\* C16: the collection structures (page_results in round 1, all_data in
\* round 2) are written only by the orchestrating flow, one write for each
\* result it consumes; no step of a worker task changes them, so no two
\* writes interleave.
SingleWriter ==
    [][/\ page_results' # page_results =>
              /\ ~WorkerStep(tasks1, tasks1')
              /\ \E q \in DOMAIN tasks1 :
                     /\ Consumes(tasks1, tasks1', q)
                     /\ \A u \in DOMAIN tasks1 \ {q} : ~Consumes(tasks1, tasks1', u)
                     /\ page_results' = (q :> tasks1[q].val) @@ page_results
       /\ all_data' # all_data =>
              /\ ~WorkerStep(tasks2, tasks2')
              /\ \E i \in DOMAIN tasks2 :
                     /\ Consumes(tasks2, tasks2', i)
                     /\ \A u \in DOMAIN tasks2 \ {i} : ~Consumes(tasks2, tasks2', u)
                     /\ all_data' = Append(all_data, app_dict(future_to_app[i], tasks2[i].val))
       /\ (WorkerStep(tasks1, tasks1') \/ WorkerStep(tasks2, tasks2')) =>
              page_results' = page_results /\ all_data' = all_data]_vars

\* C16, witness: a record has been written to all_data while another detail
\* task is running.
WrittenWhileWorkerRuns ==
    /\ pc = "round2"
    /\ all_data # <<>>
    /\ Running(tasks2) # {}
    /\ DOMAIN page_results = {1, 2}

(***************************************************************************)
(* C22: extract_app_data splits a trailing parenthesized suffix off the    *)
(* bolded name.  rawName is the bolded text as the function holds it       *)
(* (app_name_full).  A suffix (X) is a "(" followed by a non-empty X       *)
(* without ")" and the closing ")" that ends rawName.  When rawName ends   *)
(* with such a suffix, category is X, name is rawName without the suffix   *)
(* and without the white space before it (so name, blanks, "(", category,  *)
(* ")" spell rawName), and of several suffixes the longest is taken;       *)
(* otherwise category is empty and name is rawName.                        *)
(***************************************************************************)
IsSuffixAt(raw, i) ==
    /\ i \in 1..(Len(raw) - 2)
    /\ raw[i] = "("
    /\ raw[Len(raw)] = ")"
    /\ \A k \in (i + 1)..(Len(raw) - 1) : raw[k] # ")"

Blanks(raw, a, b) == \A k \in a..b : raw[k] = " "

SplitAt(raw, i, name, category) ==
    /\ IsSuffixAt(raw, i)
    /\ \A j \in 1..(i - 1) : ~IsSuffixAt(raw, j)
    /\ category = SubSeq(raw, i + 1, Len(raw) - 1)
    /\ name = SubSeq(raw, 1, Len(name))
    /\ Len(name) < i
    /\ Blanks(raw, Len(name) + 1, i - 1)
    /\ (name = <<>> \/ name[Len(name)] # " ")

NameSplit ==
    (call.fn = "extract_app_data" /\ call.st = "returned") =>
        LET rawName == Strip(call.row.bold.text)
            name == call.val.app_name
            category == call.val.category
        IN  IF \E i \in 1..Len(rawName) : IsSuffixAt(rawName, i)
            THEN \E i \in 1..Len(rawName) : SplitAt(rawName, i, name, category)
            ELSE category = <<>> /\ name = rawName

\* C22 witness: "DNF (Update)" has given name "DNF" and category "Update".
NameSplitDnfUpdate ==
    /\ call.fn = "extract_app_data"
    /\ call.st = "returned"
    /\ call.row.bold.text = DnfUpdate
    /\ call.val.app_name = <<"D", "N", "F">>
    /\ call.val.category = <<"U", "p", "d", "a", "t", "e">>

(***************************************************************************)
(* C23: the two retry loops nest.  One scrape_page call issues at most     *)
(* max_retries * max_retries GETs, and exactly that many when it returns   *)
(* after every GET has failed (every page attempt has ended with no        *)
(* document); one get_app_details call issues at most max_retries GETs.    *)
(***************************************************************************)
EveryGetFailed ==
    /\ call.st = "returned"
    /\ \A k \in DOMAIN call.soups : call.soups[k] = "none"

NestedRetryBound ==
    /\ call.fn = "scrape_page" =>
           /\ call.gets <= config.max_retries * config.max_retries
           /\ EveryGetFailed => call.gets = config.max_retries * config.max_retries
    /\ call.fn = "get_app_details" => call.gets <= config.max_retries

\* C23 witness: a scrape_page call of more than one page attempt has spent
\* max_retries GETs on each of them.
NestedRetryBoundReached ==
    /\ call.fn = "scrape_page"
    /\ config.max_retries = MaxFetchRetries
    /\ MaxFetchRetries > 1
    /\ EveryGetFailed
    /\ Len(call.soups) = config.max_retries
    /\ call.gets = config.max_retries * config.max_retries

(***************************************************************************)
(* C24: the zero-row retry of scrape_page is decided on the number of row  *)
(* elements found, not on the number of records extracted.  A page attempt *)
(* whose document has at least one row element is the last one: the call   *)
(* has returned with it, whatever was extracted, so every page attempt     *)
(* before the last found no document or no row element.                    *)
(***************************************************************************)
RetryDecidedOnRowElements ==
    call.fn = "scrape_page" =>
        /\ \A k \in 1..(Len(call.soups) - 1) : call.soups[k] \in {"none", "zero"}
        /\ LastHasRows =>
               /\ call.st = "returned"
               /\ Len(call.rows) > 0
               /\ call.attempt = Len(call.soups) - 1

\* C24 witness: the first page attempt found row elements of which none
\* extracts, and the call has returned the empty sequence after one GET
\* with page attempts left.
EmptyAfterOneAttempt ==
    /\ call.fn = "scrape_page"
    /\ call.st = "returned"
    /\ config.max_retries > 1
    /\ call.soups = <<"rows">>
    /\ call.gets = 1
    /\ call.attempt = 0
    /\ Len(call.rows) > 0
    /\ \A k \in DOMAIN call.rows : extract_app_data(call.rows[k]) = None
    /\ call.val = <<>>

(***************************************************************************)
(* C21: the intermediate state between the rounds is deterministic.        *)
(* Whatever order the page futures were taken in (whatever page_keys is),  *)
(* the records handed to round 2 are the records of the collected pages,   *)
(* page after page in ascending page number, each page's records as its    *)
(* task returned them; the order of the output is the order in which the   *)
(* detail futures were taken.                                              *)
(***************************************************************************)
RECURSIVE AscendingPages(_)
AscendingPages(n) ==
    IF n = 0 THEN <<>>
    ELSE AscendingPages(n - 1)
         \o (IF call.future_to_page[n].st = "returned" THEN call.future_to_page[n].val
             ELSE <<>>)

IntermediateStateDeterministic ==
    (call.fn = "scrape_all_pages" /\ call.st \in {"round2", "returned"}) =>
        /\ Range(call.page_keys) = Returned(call.future_to_page)
        /\ Len(call.page_keys) = Cardinality(Returned(call.future_to_page))
        /\ call.all_apps = AscendingPages(Len(call.future_to_page))

\* C21 witness: page 2 was collected before page 1, the records handed to
\* round 2 are those of page 1 followed by those of page 2, and the output
\* begins with a record of page 2.
CollectedOutOfOrder ==
    /\ call.fn = "scrape_all_pages"
    /\ call.st = "returned"
    /\ call.page_keys = <<2, 1>>
    /\ Len(call.page_results[1]) = 2
    /\ Len(call.page_results[2]) = 2
    /\ call.all_apps = call.page_results[1] \o call.page_results[2]
    /\ Len(call.all_data) = 4
    /\ call.all_data[1].app_id = call.page_results[2][2].app_id
    /\ call.all_data[4].app_id = call.page_results[1][1].app_id

(***************************************************************************)
(* C25: the output holds no list-page data that round 1 did not collect.   *)
(* In every state, each (app_id, app_name, description, category, risk,    *)
(* popularity) tuple occurs in all_data at most as often as it occurs in   *)
(* the pages of page_results; each record of all_data has exactly the 12   *)
(* named fields; and once the run has returned, all_data has one record    *)
(* for each round-2 task that did not raise.                               *)
(***************************************************************************)
OutputFields ==
    {"app_id", "app_name", "description", "category", "risk", "popularity",
     "default_ports", "affected_products", "impact", "technology", "behavior",
     "references"}

ListFields(record) ==
    [app_id |-> record.app_id, app_name |-> record.app_name,
     description |-> record.description, category |-> record.category,
     risk |-> record.risk, popularity |-> record.popularity]

TimesInOutput(partial) ==
    Cardinality({j \in DOMAIN all_data : ListFields(all_data[j]) = partial})

RECURSIVE TimesCollected(_, _)
TimesCollected(pages, partial) ==
    IF pages = {} THEN 0
    ELSE LET q == CHOOSE p \in pages : TRUE
         IN  Cardinality({k \in DOMAIN page_results[q] : page_results[q][k] = partial})
             + TimesCollected(pages \ {q}, partial)

====
